---- MODULE Spec2Model ----
(***************************************************************************)
(* A model of src/Prototype.py: the SpendingAnalyzer class.                *)
(*                                                                         *)
(* Conventions.                                                            *)
(*   - Text (str) is a sequence of character codes, so that lower(),       *)
(*     strip(), substring tests and the ord(c) < 128 test are computed.    *)
(*   - Money is an integer number of cents; a necessity score is an        *)
(*     integer number of hundredths.  Products of the two are in units of  *)
(*     1/10000 and are rounded to cents by Round, which is Python's        *)
(*     round(x, 2) on the exact decimal value (ties to even).  Binary      *)
(*     floating-point error is not modelled.                               *)
(*   - A date is a day number MMDD of one year (105 is 5 January); NaT is  *)
(*     the null date pandas produces for a cell it cannot parse.           *)
(***************************************************************************)
EXTENDS Integers, Sequences, FiniteSets, TLC

VARIABLES
  file,                       \* the CSV file given to __init__ (never written)
  today,                      \* datetime.today() at construction
  status,                     \* "new", "ready", or the exception __init__ raised
  df,                         \* self.df
  warnings,                   \* self.warnings
  rankings,                   \* self.rankings
  recurring_payments,         \* self.recurring_payments
  transactions_with_ratings,  \* self.transactions_with_ratings
  necessity_scores,           \* self.necessity_scores
  lastCall                    \* the last public method called and what it returned

vars == <<file, today, status, df, warnings, rankings, recurring_payments,
          transactions_with_ratings, necessity_scores, lastCall>>

----------------------------------------------------------------------------
(* Text *)

UpperLetters == <<"A", "B", "C", "D", "E", "F", "G", "H", "I", "J", "K", "L", "M",
                  "N", "O", "P", "Q", "R", "S", "T", "U", "V", "W", "X", "Y", "Z">>

LowerLetters == <<"a", "b", "c", "d", "e", "f", "g", "h", "i", "j", "k", "l", "m",
                  "n", "o", "p", "q", "r", "s", "t", "u", "v", "w", "x", "y", "z">>

\* ord(c) of the characters the model writes: ASCII letters, the space, the
\* tab, "?", and two Latin-1 letters ("E'" is U+00C9, "e'" is U+00E9).
Ord(c) ==
  IF \E i \in 1..26 : UpperLetters[i] = c
    THEN 64 + (CHOOSE i \in 1..26 : UpperLetters[i] = c)
  ELSE IF \E i \in 1..26 : LowerLetters[i] = c
    THEN 96 + (CHOOSE i \in 1..26 : LowerLetters[i] = c)
  ELSE IF c = " " THEN 32
  ELSE IF c = "\t" THEN 9
  ELSE IF c = "?" THEN 63
  ELSE IF c = "E'" THEN 201
  ELSE 233

Text(chars) == [i \in 1..Len(chars) |-> Ord(chars[i])]

\* str.lower() of one character: ASCII and Latin-1 capitals move down by 32.
LowerChar(c) ==
  IF (c >= 65 /\ c <= 90) \/ (c >= 192 /\ c <= 222 /\ c # 215) THEN c + 32 ELSE c

\* str.lower()
Lower(s) == [i \in 1..Len(s) |-> LowerChar(s[i])]

\* str.isspace() of one character
IsSpace(c) == c \in {9, 10, 11, 12, 13, 28, 29, 30, 31, 32, 133, 160}

\* str.strip(): the text without its leading and trailing whitespace
Strip(s) ==
  LET keep == {i \in 1..Len(s) : ~IsSpace(s[i])}
  IN  IF keep = {} THEN <<>>
      ELSE LET lo == CHOOSE i \in keep : \A j \in keep : i <= j
               hi == CHOOSE i \in keep : \A j \in keep : j <= i
           IN  SubSeq(s, lo, hi)

\* `sub in s` of two str
Contains(s, sub) ==
  \E i \in 0..(Len(s) - Len(sub)) : SubSeq(s, i + 1, i + Len(sub)) = sub

----------------------------------------------------------------------------
(* Numbers *)

Abs(x) == IF x < 0 THEN -x ELSE x

\* round() of the exact quotient num / den (den > 0) to an integer, ties to even
Round(num, den) ==
  LET q == num \div den
      r == num % den
  IN  IF 2 * r < den THEN q
      ELSE IF 2 * r > den THEN q + 1
      ELSE IF q % 2 = 0 THEN q ELSE q + 1

RECURSIVE SumSeq(_)
SumSeq(s) == IF s = <<>> THEN 0 ELSE Head(s) + SumSeq(Tail(s))

\* s sorted by Less, stable: s[i] stays before s[j] for i < j unless Less(s[j], s[i])
SortBy(s, Less(_, _)) ==
  LET n == Len(s)
      before(i, j) == Less(s[i], s[j]) \/ (~Less(s[j], s[i]) /\ i < j)
      rank(i) == Cardinality({j \in 1..n : j # i /\ before(j, i)}) + 1
  IN  [k \in 1..n |-> s[CHOOSE i \in 1..n : rank(i) = k]]

----------------------------------------------------------------------------
(* The input: a CSV file as pd.read_csv hands it over *)

Columns == {"Date", "Amount", "Category", "Description"}

\* A cell of the file: a value pandas can read, or an empty or malformed one.
Cell(v) == [ok |-> TRUE, v |-> v]
BadNumber == [ok |-> FALSE, v |-> 0]
BadText == [ok |-> FALSE, v |-> <<>>]

Row(d, a, c, s) == [Date |-> d, Amount |-> a, Category |-> c, Description |-> s]

StoreA == Text(<<"S", "t", "o", "r", "e", " ", "A">>)
StoreALoose == Text(<<"s", "t", "o", "r", "e", " ", "a", " ">>)
Employer == Text(<<"E", "m", "p", "l", "o", "y", "e", "r">>)
RefundUpper == Text(<<"R", "E", "F", "U", "N", "D">>)
Cafe == Text(<<"C", "a", "f", "e'">>)
Groceries == Text(<<"G", "r", "o", "c", "e", "r", "i", "e", "s">>)
GroceriesLower == Text(<<"g", "r", "o", "c", "e", "r", "i", "e", "s">>)
Salary == Text(<<"S", "a", "l", "a", "r", "y">>)
Bonus == Text(<<"B", "o", "n", "u", "s">>)
Rent == Text(<<"R", "e", "n", "t">>)
Shopping == Text(<<"S", "h", "o", "p", "p", "i", "n", "g">>)
Mortgage == Text(<<"M", "o", "r", "t", "g", "a", "g", "e">>)

\* The rows a file may hold.  Dates: 105 and 118 lie in January, 215 is the
\* processing date itself, 310 lies after it.
InputRows ==
  { Row(Cell(105), Cell(-5000), Cell(Groceries), Cell(StoreA)),
    Row(Cell(310), BadNumber, Cell(GroceriesLower), Cell(Cafe)),
    Row(Cell(118), Cell(20000), Cell(Salary), Cell(Employer)),
    Row(BadNumber, Cell(-3000), Cell(Bonus), Cell(Employer)),
    Row(Cell(215), Cell(-12000), Cell(Rent), BadText),
    Row(Cell(215), Cell(5000), Cell(Shopping), Cell(RefundUpper)),
    Row(Cell(105), Cell(200), BadText, Cell(Cafe)),
    Row(Cell(105), Cell(-301), Cell(Mortgage), Cell(StoreALoose)) }

MaxRows == 2

ProcessingDates == {215}

\* A file without a column has no cells of it.
Project(row, cols) ==
  Row(IF "Date" \in cols THEN row.Date ELSE BadNumber,
      IF "Amount" \in cols THEN row.Amount ELSE BadNumber,
      IF "Category" \in cols THEN row.Category ELSE BadText,
      IF "Description" \in cols THEN row.Description ELSE BadText)

Tables(pool) == UNION {[1..n -> pool] : n \in 0..MaxRows}

\* exists: os.path.exists(csv_path); columns: the header; utc: the date cells
\* carry a UTC offset ("2024-01-05T00:00:00Z"); rows: the data lines.
MissingFile == [exists |-> FALSE, columns |-> {}, utc |-> FALSE, rows |-> <<>>]

FilesOf(headers, offsets, pool) ==
  { [exists |-> TRUE, columns |-> cols, utc |-> u /\ "Date" \in cols,
     rows |-> [i \in 1..Len(t) |-> Project(t[i], cols)]] :
      cols \in headers, u \in offsets, t \in Tables(pool) }

\* Every file: any header, dates with or without offset, any rows.
Files == {MissingFile} \cup FilesOf(SUBSET Columns, BOOLEAN, InputRows)

\* The rows the future-date filter keeps on every processing date.
PastRows ==
  {row \in InputRows : ~(row.Date.ok /\ \A t \in ProcessingDates : row.Date.v > t)}

\* The files that hold all four columns, dates without offset and no
\* future-dated row: validation hands the analyses every row of them.
FullFiles == FilesOf({Columns}, {FALSE}, PastRows)

CafeTab == Text(<<"C", "a", "f", "e'", "\t", "A">>)

\* Rows for longer files: a small expense entered with a positive amount and a
\* description holding a tab and a Latin-1 letter, a large expense, an income
\* entered with a negative amount and no date, and a row dated after the
\* processing date.
LongRows ==
  { Row(Cell(105), Cell(200), BadText, Cell(CafeTab)),
    Row(Cell(215), Cell(-12000), Cell(Rent), BadText),
    Row(BadNumber, Cell(-3000), Cell(Bonus), Cell(Employer)),
    Row(Cell(310), BadNumber, Cell(GroceriesLower), Cell(Cafe)) }

MaxLongRows == 6

\* The files of up to MaxLongRows such rows, with all four columns: long enough
\* for the outlier test, which needs four expenses.
LongFiles ==
  { [exists |-> TRUE, columns |-> Columns, utc |-> u, rows |-> t] :
      u \in BOOLEAN, t \in UNION {[1..n -> LongRows] : n \in 0..MaxLongRows} }

----------------------------------------------------------------------------
(* _clean_and_validate_data *)

\* pandas' null date
NaT == 0

Other == Text(<<"O", "t", "h", "e", "r">>)
Unknown == Text(<<"U", "n", "k", "n", "o", "w", "n">>)

\* pd.read_csv: one row per data line, labelled 0, 1, ... (a RangeIndex)
read_csv(f) ==
  [i \in 1..Len(f.rows) |->
     [idx |-> i - 1, Date |-> f.rows[i].Date, Amount |-> f.rows[i].Amount,
      Category |-> f.rows[i].Category, Description |-> f.rows[i].Description,
      IsIncome |-> FALSE]]

\* pd.to_datetime(..., errors='coerce') of one cell
to_datetime(cell) == IF cell.ok THEN cell.v ELSE NaT

\* The parsed Date column is offset-aware when its cells carry an offset and at
\* least one parses; comparing such a column with the naive `today` raises
\* TypeError, which line 58 catches.
ComparisonRaises(f, rows) == f.utc /\ \E i \in 1..Len(rows) : rows[i].Date # NaT

\* future_mask of one row (NaT > today is False)
IsFuture(row, t) == row.Date # NaT /\ row.Date > t

Warning(kind, n) == [kind |-> kind, n |-> n]

\* The Dates block.  st is [df, warnings].
DateStep(f, t, st) ==
  IF "Date" \notin f.columns THEN st
  ELSE LET parsed == [i \in 1..Len(st.df) |->
                        [st.df[i] EXCEPT !.Date = to_datetime(st.df[i].Date)]]
           NotFuture(row) == ~IsFuture(row, t)
           future_count == Cardinality({i \in 1..Len(parsed) : IsFuture(parsed[i], t)})
       IN  IF ComparisonRaises(f, parsed)
             THEN [df |-> parsed,
                   warnings |-> Append(st.warnings, Warning("date_error", 0))]
             ELSE [df |-> SelectSeq(parsed, NotFuture),
                   warnings |-> IF future_count > 0
                                  THEN Append(st.warnings, Warning("future", future_count))
                                  ELSE st.warnings]

\* pd.to_numeric(..., errors='coerce').fillna(0) of one cell
to_numeric(cell) == IF cell.ok THEN cell.v ELSE 0

\* fillna(default).astype(str) of one cell
fill_text(cell, default) == IF cell.ok THEN cell.v ELSE default

\* Sanitize dropping the characters it should replace (encode('ascii', 'ignore'))
SanitizeDropping(x) == SelectSeq(x, LAMBDA c : c < 128)

\* ''.join(c if ord(c) < 128 else '?' for c in str(x))
Sanitize(x) == [i \in 1..Len(x) |-> IF x[i] < 128 THEN x[i] ELSE 63]

\* The "Normalize columns" and "Sanitize descriptions" blocks.  A column the
\* file lacks is created with its default in every row.
NormalizeStep(f, st) ==
  [st EXCEPT !.df =
     [i \in 1..Len(st.df) |->
        [st.df[i] EXCEPT
           !.Date = IF "Date" \in f.columns THEN @ ELSE NaT,
           !.Amount = IF "Amount" \in f.columns THEN to_numeric(@) ELSE 0,
           !.Category = IF "Category" \in f.columns THEN fill_text(@, Other) ELSE Other,
           !.Description = Sanitize(IF "Description" \in f.columns
                                      THEN fill_text(@, Unknown) ELSE Unknown)]]]

income_keywords ==
  << Text(<<"s", "a", "l", "a", "r", "y">>), Text(<<"i", "n", "c", "o", "m", "e">>),
     Text(<<"b", "o", "n", "u", "s">>), Text(<<"r", "e", "f", "u", "n", "d">>),
     Text(<<"d", "e", "p", "o", "s", "i", "t">>) >>

\* Category.str.lower().str.contains('salary|income|bonus|refund|deposit')
IsIncomeCategory(category) ==
  \E k \in 1..Len(income_keywords) : Contains(Lower(category), income_keywords[k])

IncomeStep(st) ==
  [st EXCEPT !.df =
     [i \in 1..Len(st.df) |->
        [st.df[i] EXCEPT !.IsIncome = IsIncomeCategory(st.df[i].Category)]]]

Refund == Text(<<"r", "e", "f", "u", "n", "d">>)

\* 'refund' not in str(row['Description']).lower()
LacksRefund(description) == ~Contains(Lower(description), Refund)

\* CorrectedAmount without the elif of line 88: only income is corrected
CorrectedAmountIncomeOnly(row) ==
  IF row.IsIncome /\ row.Amount < 0 THEN Abs(row.Amount) ELSE row.Amount

\* the amount the loop of lines 84-90 leaves in one row
CorrectedAmount(row) ==
  IF row.IsIncome /\ row.Amount < 0 THEN Abs(row.Amount)
  ELSE IF ~row.IsIncome /\ row.Amount > 0 /\ LacksRefund(row.Description)
    THEN -Abs(row.Amount)
  ELSE row.Amount

RECURSIVE IncomeNotes(_)
\* the notes line 87 appends, in row order, each with the row's label
IncomeNotes(rows) ==
  IF rows = <<>> THEN <<>>
  ELSE LET rest == IncomeNotes(Tail(rows))
       IN  IF Head(rows).IsIncome /\ Head(rows).Amount < 0
             THEN <<Warning("income_sign", Head(rows).idx)>> \o rest
             ELSE rest

\* SignStep with a note for every corrected amount, expenses included
SignStepNotingEveryFlip(st) ==
  [df |-> [i \in 1..Len(st.df) |-> [st.df[i] EXCEPT !.Amount = CorrectedAmount(st.df[i])]],
   warnings |-> st.warnings \o
      [k \in 1..Len(SelectSeq(st.df, LAMBDA row : CorrectedAmount(row) # row.Amount)) |->
         Warning("income_sign",
                 SelectSeq(st.df, LAMBDA row : CorrectedAmount(row) # row.Amount)[k].idx)]]

SignStep(st) ==
  [df |-> [i \in 1..Len(st.df) |-> [st.df[i] EXCEPT !.Amount = CorrectedAmount(st.df[i])]],
   warnings |-> st.warnings \o IncomeNotes(st.df)]

IsExpense(row) == row.Amount < 0

\* 4 * Series.quantile(k / 4) of the ascending amounts s (linear interpolation
\* between the two nearest ranks)
Quantile4(s, k) ==
  LET h == k * (Len(s) - 1)
      i == h \div 4
      r == h % 4
  IN  IF r = 0 THEN 4 * s[i + 1] ELSE 4 * s[i + 1] + r * (s[i + 2] - s[i + 1])

\* len(extreme_outliers): the expenses below q1 - 1.5 * iqr (compared times 8)
OutlierCount(rows) ==
  LET expense_df == SelectSeq(rows, IsExpense)
      amounts == [i \in 1..Len(expense_df) |-> expense_df[i].Amount]
      sorted == SortBy(amounts, <)
      q1 == Quantile4(sorted, 1)
      q3 == Quantile4(sorted, 3)
      lower_bound == 5 * q1 - 3 * q3
  IN  IF Len(expense_df) >= 4
        THEN Cardinality({i \in 1..Len(amounts) : 8 * amounts[i] < lower_bound})
        ELSE 0

OutlierStep(st) ==
  IF OutlierCount(st.df) > 0
    THEN [st EXCEPT !.warnings = Append(@, Warning("outliers", OutlierCount(st.df)))]
    ELSE st

\* duplicated(subset=['Date', 'Description', 'Amount'], keep=False).sum()
DuplicateCount(rows) ==
  Cardinality({i \in 1..Len(rows) :
                 \E j \in 1..Len(rows) :
                    /\ j # i
                    /\ rows[j].Date = rows[i].Date
                    /\ rows[j].Description = rows[i].Description
                    /\ rows[j].Amount = rows[i].Amount})

DuplicateStep(st) ==
  IF DuplicateCount(st.df) > 0
    THEN [st EXCEPT !.warnings = Append(@, Warning("duplicates", DuplicateCount(st.df)))]
    ELSE st

\* DataFrame.duplicated raises KeyError for a subset column the frame lacks,
\* unless the frame has no row at all (it then returns before looking).
DuplicatedRaises(f, rows) == "Date" \notin f.columns /\ rows # <<>>

\* The whole method: the table and the warnings it leaves, and whether it raised.
clean_and_validate_data(f, t) ==
  LET loaded == [df |-> read_csv(f), warnings |-> <<>>]
      signed == SignStep(IncomeStep(NormalizeStep(f, DateStep(f, t, loaded))))
      flagged == OutlierStep(signed)
  IN  IF DuplicatedRaises(f, flagged.df)
        THEN [raised |-> "KeyError", df |-> flagged.df, warnings |-> flagged.warnings]
        ELSE [raised |-> "none", df |-> DuplicateStep(flagged).df,
              warnings |-> DuplicateStep(flagged).warnings]

NecessityTable ==
  {
       <<Text(<<"g", "r", "o", "c", "e", "r", "i", "e", "s">>), 95>>,
       <<Text(<<"f", "o", "o", "d">>), 95>>,
       <<Text(<<"r", "e", "n", "t">>), 95>>,
       <<Text(<<"u", "t", "i", "l", "i", "t", "i", "e", "s">>), 95>>,
       <<Text(<<"h", "o", "u", "s", "i", "n", "g">>), 95>>,
       <<Text(<<"h", "e", "a", "l", "t", "h", "c", "a", "r", "e">>), 90>>,
       <<Text(<<"t", "r", "a", "n", "s", "p", "o", "r", "t">>), 85>>,
       <<Text(<<"t", "r", "a", "n", "s", "p", "o", "r", "t", "a", "t", "i", "o", "n">>), 85>>,
       <<Text(<<"i", "n", "s", "u", "r", "a", "n", "c", "e">>), 85>>,
       <<Text(<<"e", "d", "u", "c", "a", "t", "i", "o", "n">>), 80>>,
       <<Text(<<"c", "h", "i", "l", "d", "c", "a", "r", "e">>), 85>>,
       <<Text(<<"p", "h", "o", "n", "e">>), 70>>,
       <<Text(<<"i", "n", "t", "e", "r", "n", "e", "t">>), 75>>,
       <<Text(<<"i", "n", "c", "o", "m", "e">>), 100>>,
       <<Text(<<"s", "a", "l", "a", "r", "y">>), 100>>,
       <<Text(<<"g", "y", "m">>), 40>>,
       <<Text(<<"e", "n", "t", "e", "r", "t", "a", "i", "n", "m", "e", "n", "t">>), 30>>,
       <<Text(<<"d", "i", "n", "i", "n", "g">>), 35>>,
       <<Text(<<"e", "a", "t", "i", "n", "g", " ", "o", "u", "t">>), 35>>,
       <<Text(<<"h", "o", "b", "b", "i", "e", "s">>), 25>>,
       <<Text(<<"s", "u", "b", "s", "c", "r", "i", "p", "t", "i", "o", "n", "s">>), 20>>,
       <<Text(<<"s", "h", "o", "p", "p", "i", "n", "g">>), 15>>,
       <<Text(<<"o", "t", "h", "e", "r">>), 50>>
  }

----------------------------------------------------------------------------
(* The analyses *)

OtherLower == Text(<<"o", "t", "h", "e", "r">>)

\* get_necessity_score without lower()
get_necessity_score_cased(scores, category) ==
  LET cat == IF category.ok THEN category.v ELSE OtherLower
  IN  IF \E e \in scores : e[1] = cat
        THEN (CHOOSE e \in scores : e[1] = cat)[2]
        ELSE 50

\* get_necessity_score: category is a cell, None being the cell that is not ok
get_necessity_score(scores, category) ==
  LET cat == IF category.ok THEN Lower(category.v) ELSE OtherLower
  IN  IF \E e \in scores : e[1] = cat
        THEN (CHOOSE e \in scores : e[1] = cat)[2]
        ELSE 50

\* GroupKey without strip()
GroupKeyUntrimmed(row) == Lower(row.Description)

\* str(row.get('Description', '')).strip().lower()
GroupKey(row) == Lower(Strip(row.Description))

\* identify_recurring_payments: the list it stores and returns
identify_recurring_payments(rows) ==
  LET n == Len(rows)
      desc == [i \in 1..n |-> GroupKey(rows[i])]
      IsFirst(i) == \A j \in 1..(i - 1) : desc[j] # desc[i]
      items(i) == {j \in 1..n : desc[j] = desc[i]}
      firsts == {i \in 1..n : IsFirst(i) /\ Cardinality(items(i)) >= 2}
      nth(k) == CHOOSE i \in firsts : Cardinality({j \in firsts : j < i}) = k - 1
      total(i) == SumSeq([k \in 1..n |-> IF k \in items(i) THEN rows[k].Amount ELSE 0])
      entry(i) == [description |-> desc[i],
                   count |-> Cardinality(items(i)),
                   average_amount |-> Round(total(i), Cardinality(items(i))),
                   category |-> rows[i].Category]
      recurring == [k \in 1..Cardinality(firsts) |-> entry(nth(k))]
      Larger(x, y) == Abs(x.average_amount) > Abs(y.average_amount)
  IN  SortBy(recurring, Larger)

\* Timestamp.to_period('M') of a date that is not NaT
MonthOf(d) == d \div 100

NaN == [nan |-> TRUE, v |-> 0]
Num(v) == [nan |-> FALSE, v |-> v]

\* predict_incoming_money.  groupby leaves the rows with a NaT month out, and
\* the mean of no monthly sum at all is NaN, which raises nothing.  Line 51
\* always leaves a datetime column behind, so `.dt` never raises and the
\* except branch of line 141 is not taken.
predict_incoming_money(rows, columns) ==
  LET incomes == SelectSeq(rows, LAMBDA row : row.Amount > 0)
      sum == SumSeq([i \in 1..Len(incomes) |-> incomes[i].Amount])
      dated == SelectSeq(incomes, LAMBDA row : row.Date # NaT)
      months == {MonthOf(dated[i].Date) : i \in 1..Len(dated)}
      monthly == SumSeq([i \in 1..Len(dated) |-> dated[i].Amount])
  IN  IF incomes = <<>>
        THEN [predicted_monthly_income |-> Num(0), transaction_count |-> 0]
      ELSE IF "Date" \in columns
        THEN [predicted_monthly_income |->
                IF months = {} THEN NaN ELSE Num(Round(monthly, Cardinality(months))),
              transaction_count |-> Len(incomes)]
      ELSE [predicted_monthly_income |-> Num(sum), transaction_count |-> Len(incomes)]

Assessment(necessity) ==
  IF necessity >= 90 THEN "essential"
  ELSE IF necessity >= 70 THEN "important"
  ELSE IF necessity >= 40 THEN "discretionary"
  ELSE "cut"

\* Rating with the waste computed from the necessity, not from 1 - necessity
RatingWasteOfNecessity(row, scores) ==
  LET amount == row.Amount
      necessity == get_necessity_score(scores, Cell(row.Category))
  IN  [date |-> row.Date,
       description |-> row.Description,
       amount |-> amount,
       necessity |-> necessity,
       worth_it_rating |-> Round(Abs(amount) * necessity, 100),
       waste_potential |-> Round(Abs(amount) * necessity, 100),
       assessment |-> Assessment(necessity)]

\* the rating rate_transaction_worth appends for one row
Rating(row, scores) ==
  LET amount == row.Amount
      necessity == get_necessity_score(scores, Cell(row.Category))
  IN  [date |-> row.Date,
       description |-> row.Description,
       amount |-> amount,
       necessity |-> necessity,
       worth_it_rating |-> Round(Abs(amount) * necessity, 100),
       waste_potential |-> Round(Abs(amount) * (100 - necessity), 100),
       assessment |-> Assessment(necessity)]

\* rate_transaction_worth without the reset of line 150
rate_transaction_worth_appending(cached, rows, scores) ==
  cached \o [i \in 1..Len(rows) |-> Rating(rows[i], scores)]

\* rate_transaction_worth: the list it stores and returns.  cached is
\* self.transactions_with_ratings before the call, which line 150 discards.
rate_transaction_worth(cached, rows, scores) ==
  LET fresh == <<>>
  IN  fresh \o [i \in 1..Len(rows) |-> Rating(rows[i], scores)]

RECURSIVE TextLess(_, _)
\* a < b of two str
TextLess(a, b) ==
  IF b = <<>> THEN FALSE
  ELSE IF a = <<>> THEN TRUE
  ELSE IF Head(a) # Head(b) THEN Head(a) < Head(b)
  ELSE TextLess(Tail(a), Tail(b))

protected ==
  { Text(<<"r", "e", "n", "t">>), Text(<<"h", "o", "u", "s", "i", "n", "g">>),
    Text(<<"m", "o", "r", "t", "g", "a", "g", "e">>) }

\* total_abs * (1 - necessity), in units of 1/10000
PotentialCut(total_abs, necessity) == total_abs * (100 - necessity)

\* Skipped without the protected categories
SkippedNoiseOnly(cat, total_abs, necessity) ==
  PotentialCut(total_abs, necessity) <= 10000

\* the two `continue`s of analyze_spending
Skipped(cat, total_abs, necessity) ==
  \/ cat \in protected /\ necessity >= 90
  \/ PotentialCut(total_abs, necessity) <= 10000

\* analyze_spending.  groupby yields the lowercased categories in ascending
\* order; the sort by the rounded potential cut is stable.
analyze_spending(rows, scores) ==
  LET expenses == SelectSeq(rows, IsExpense)
      key == [i \in 1..Len(expenses) |-> Lower(expenses[i].Category)]
      cats == {key[i] : i \in 1..Len(expenses)}
      by_cat == [cat \in cats |->
                   Abs(SumSeq([i \in 1..Len(expenses) |->
                                 IF key[i] = cat THEN expenses[i].Amount ELSE 0]))]
      necessity == [cat \in cats |-> get_necessity_score(scores, Cell(cat))]
      kept == {cat \in cats : ~Skipped(cat, by_cat[cat], necessity[cat])}
      nth(k) == CHOOSE c \in kept : Cardinality({d \in kept : TextLess(d, c)}) = k - 1
      entry(cat) == [category |-> cat,
                     amount |-> by_cat[cat],
                     potential_cut |-> Round(PotentialCut(by_cat[cat], necessity[cat]), 100),
                     necessity |-> necessity[cat]]
      suggestions == [k \in 1..Cardinality(kept) |-> entry(nth(k))]
      Larger(x, y) == x.potential_cut > y.potential_cut
  IN  SortBy(suggestions, Larger)

_generate_reason(necessity) ==
  IF necessity >= 90 THEN "essential"
  ELSE IF necessity >= 70 THEN "review"
  ELSE IF necessity >= 40 THEN "trim"
  ELSE "cut"

RECURSIVE RecsLoop(_, _, _, _)
\* the loop of get_recommendations from cuts[i] on
RecsLoop(cuts, i, recs, top_n) ==
  IF i > Len(cuts) THEN recs
  ELSE IF \E k \in 1..Len(recs) : recs[k].category = cuts[i].category
    THEN RecsLoop(cuts, i + 1, recs, top_n)
  ELSE LET more == Append(recs, [category |-> cuts[i].category,
                                 amount |-> cuts[i].amount,
                                 reason |-> _generate_reason(cuts[i].necessity)])
       IN  IF Len(more) >= top_n THEN more ELSE RecsLoop(cuts, i + 1, more, top_n)

get_recommendations(rows, scores, top_n) ==
  RecsLoop(analyze_spending(rows, scores), 1, <<>>, top_n)

_generate_summary(rows) ==
  LET total_income == SumSeq([i \in 1..Len(rows) |->
                                IF rows[i].Amount > 0 THEN rows[i].Amount ELSE 0])
      total_spent == SumSeq([i \in 1..Len(rows) |->
                               IF rows[i].Amount < 0 THEN rows[i].Amount ELSE 0])
  IN  [total_income |-> total_income, total_spent |-> total_spent,
       net_balance |-> total_income + total_spent, transaction_count |-> Len(rows)]

\* _get_top_questionable_transactions, given self.transactions_with_ratings
\* as it is after the refill of line 252
TopQuestionable(ratings, top_n) ==
  LET questionable == SelectSeq(ratings, LAMBDA t : t.necessity < 70)
      Larger(x, y) == x.waste_potential > y.waste_potential
      sorted == SortBy(questionable, Larger)
  IN  SubSeq(sorted, 1, IF Len(sorted) < top_n THEN Len(sorted) ELSE top_n)

\* ((1 + r / 12) ^ (12 * years) - 1) / (r / 12) for r = rate_pct / 100, to three
\* decimals, times 1000
AnnuityFactor(rate_pct, years) ==
  CASE rate_pct = 5 /\ years = 1 -> 12279
    [] rate_pct = 5 /\ years = 2 -> 25186
    [] rate_pct = 5 /\ years = 5 -> 68006
    [] rate_pct = 7 /\ years = 1 -> 12393
    [] rate_pct = 7 /\ years = 2 -> 25681
    [] rate_pct = 7 /\ years = 5 -> 71593
    [] rate_pct = 10 /\ years = 1 -> 12566
    [] rate_pct = 10 /\ years = 2 -> 26447
    [] rate_pct = 10 /\ years = 5 -> 77437

\* MonthlySavings without the division by 12
MonthlySavingsUndivided(sum) == sum

\* sum(...) / 12.0, rounded to the unit of `sum`
MonthlySavings(sum) == Round(sum, 12)

Rates == <<5, 7, 10>>
Horizons == <<1, 2, 5>>

\* investment_projection.  recommendations is a list of dicts; `has` tells
\* whether a dict holds the key 'amount' (c.get('amount', 0)).  The sum is
\* divided by 12 before the factor is applied, kept to 1/100 cent.
investment_projection(recommendations) ==
  LET sum == SumSeq([i \in 1..Len(recommendations) |->
                       IF recommendations[i].has THEN recommendations[i].amount ELSE 0])
      pmt == MonthlySavings(100 * sum)
      fv(rate_pct, years) == Round((pmt \div 100) * AnnuityFactor(rate_pct, years)
                                    + ((pmt % 100) * AnnuityFactor(rate_pct, years)) \div 100,
                                   1000)
  IN  [monthly_savings |-> MonthlySavings(sum),
       scenarios |-> [r \in 1..Len(Rates) |->
                        [rate |-> Rates[r],
                         projections |-> [y \in 1..Len(Horizons) |->
                                            [years |-> Horizons[y],
                                             value |-> fv(Rates[r], Horizons[y])]]]]]

----------------------------------------------------------------------------
(* The state machine *)

NoCall == [method |-> "none", result |-> <<>>]

Start(files) ==
  /\ file \in files
  /\ today = NaT
  /\ status = "new"
  /\ df = <<>>
  /\ warnings = <<>>
  /\ rankings = <<>>
  /\ recurring_payments = <<>>
  /\ transactions_with_ratings = <<>>
  /\ necessity_scores = {}
  /\ lastCall = NoCall

\* SpendingAnalyzer(csv_path): __init__ with the validation it runs.  An
\* exception leaves no analyzer behind; status records which one it was.
Construct ==
  /\ status = "new"
  /\ \E t \in ProcessingDates :
       LET v == clean_and_validate_data(file, t)
       IN  IF ~file.exists
             THEN /\ status' = "FileNotFoundError"
                  /\ UNCHANGED <<today, df, warnings, necessity_scores>>
           ELSE IF v.raised # "none"
             THEN /\ status' = v.raised
                  /\ today' = t
                  /\ df' = v.df
                  /\ warnings' = v.warnings
                  /\ UNCHANGED necessity_scores
           ELSE /\ status' = "ready"
                /\ today' = t
                /\ df' = v.df
                /\ warnings' = v.warnings
                /\ necessity_scores' = NecessityTable
  /\ UNCHANGED <<file, rankings, recurring_payments, transactions_with_ratings, lastCall>>

Returned(method, result) == [method |-> method, result |-> result]

IdentifyRecurringPayments ==
  /\ status = "ready"
  /\ recurring_payments' = identify_recurring_payments(df)
  /\ lastCall' = Returned("identify_recurring_payments", recurring_payments')
  /\ UNCHANGED <<file, today, status, df, warnings, rankings,
                 transactions_with_ratings, necessity_scores>>

PredictIncomingMoney ==
  /\ status = "ready"
  /\ lastCall' = Returned("predict_incoming_money",
                          predict_incoming_money(df, file.columns))
  /\ UNCHANGED <<file, today, status, df, warnings, rankings, recurring_payments,
                 transactions_with_ratings, necessity_scores>>

RateTransactionWorth ==
  /\ status = "ready"
  /\ transactions_with_ratings' =
       rate_transaction_worth(transactions_with_ratings, df, necessity_scores)
  /\ lastCall' = Returned("rate_transaction_worth", transactions_with_ratings')
  /\ UNCHANGED <<file, today, status, df, warnings, rankings, recurring_payments,
                 necessity_scores>>

AnalyzeSpending ==
  /\ status = "ready"
  /\ lastCall' = Returned("analyze_spending", analyze_spending(df, necessity_scores))
  /\ UNCHANGED <<file, today, status, df, warnings, rankings, recurring_payments,
                 transactions_with_ratings, necessity_scores>>

DefaultTopN == 5

GetRecommendations(top_ns) ==
  /\ status = "ready"
  /\ \E top_n \in top_ns :
       lastCall' = [method |-> "get_recommendations", top_n |-> top_n,
                    result |-> get_recommendations(df, necessity_scores, top_n)]
  /\ UNCHANGED <<file, today, status, df, warnings, rankings, recurring_payments,
                 transactions_with_ratings, necessity_scores>>

\* a list of recommendation dicts as investment_projection reads it
AsDicts(recs) == [i \in 1..Len(recs) |-> [has |-> TRUE, amount |-> recs[i].amount]]

Dict(amount) == [has |-> TRUE, amount |-> amount]
NoAmount == [has |-> FALSE, amount |-> 0]

\* lists a caller may hand to investment_projection besides the recommendations
ProjectionInputs ==
  { <<>>, <<NoAmount>>, <<Dict(0), Dict(0)>>, <<Dict(1200)>>, <<Dict(5000), Dict(301)>> }

InvestmentProjection(inputs) ==
  /\ status = "ready"
  /\ \E recs \in inputs
                   \cup {AsDicts(get_recommendations(df, necessity_scores, DefaultTopN))} :
       lastCall' = [method |-> "investment_projection", recommendations |-> recs,
                    result |-> investment_projection(recs)]
  /\ UNCHANGED <<file, today, status, df, warnings, rankings, recurring_payments,
                 transactions_with_ratings, necessity_scores>>

None == [ok |-> FALSE, v |-> <<>>]

\* categories a caller may ask the score of
CategoryArgs ==
  { None, Cell(Rent), Cell(Lower(Rent)), Cell(Text(<<"R", "E", "N", "T">>)),
    Cell(Shopping), Cell(Text(<<"s", "H", "O", "P", "p", "i", "n", "g">>)),
    Cell(Mortgage), Cell(Bonus), Cell(Text(<<"R", "e", "n", "t", " ">>)),
    Cell(Text(<<"E", "a", "t", "i", "n", "g", " ", "O", "u", "t">>)), Cell(<<>>) }

GetNecessityScore ==
  /\ status = "ready"
  /\ \E category \in CategoryArgs :
       lastCall' = [method |-> "get_necessity_score", category |-> category,
                    result |-> get_necessity_score(necessity_scores, category)]
  /\ UNCHANGED <<file, today, status, df, warnings, rankings, recurring_payments,
                 transactions_with_ratings, necessity_scores>>

DefaultTopQuestionable == 8

\* generate_dashboard, with the two fields it writes on its way
GenerateDashboard ==
  /\ status = "ready"
  /\ LET recurring == identify_recurring_payments(df)
         ratings == rate_transaction_worth(transactions_with_ratings, df, necessity_scores)
         refilled == IF ratings = <<>>
                       THEN rate_transaction_worth(ratings, df, necessity_scores)
                       ELSE ratings
         spending_cuts == get_recommendations(df, necessity_scores, DefaultTopN)
     IN  /\ recurring_payments' = recurring
         /\ transactions_with_ratings' = refilled
         /\ lastCall' = Returned("generate_dashboard",
              [summary |-> _generate_summary(df),
               incoming_money |-> predict_incoming_money(df, file.columns),
               recurring_payments |-> recurring,
               spending_cuts |-> spending_cuts,
               top_questionable_spending |-> TopQuestionable(refilled, DefaultTopQuestionable),
               transaction_ratings |-> refilled,
               investment_projection |-> investment_projection(AsDicts(spending_cuts))])
  /\ UNCHANGED <<file, today, status, df, warnings, rankings, necessity_scores>>

\* The analyzer of a complete file, and every sequence of analyses on it.
Init == Start(FullFiles \cup {MissingFile})

Next ==
  \/ Construct
  \/ IdentifyRecurringPayments
  \/ PredictIncomingMoney
  \/ RateTransactionWorth
  \/ AnalyzeSpending
  \/ GetRecommendations({DefaultTopN})
  \/ InvestmentProjection({})
  \/ GenerateDashboard

Spec == Init /\ [][Next]_vars

\* Construction alone, over every file: any subset of the columns.
InitFiles == Start(Files)

SpecFiles == InitFiles /\ [][Construct]_vars

\* get_necessity_score, called with any category.
InitScore == Start(FullFiles)

NextScore == Construct \/ GetNecessityScore

SpecScore == InitScore /\ [][NextScore]_vars

\* investment_projection and get_recommendations, called with any argument,
\* and generate_dashboard, which calls both.
InitCalls == Start(FullFiles)

NextCalls ==
  \/ Construct
  \/ GetRecommendations({0, 1, DefaultTopN})
  \/ InvestmentProjection(ProjectionInputs)
  \/ GenerateDashboard

SpecCalls == InitCalls /\ [][NextCalls]_vars

\* Construction alone, over the longer files.
InitLong == Start(LongFiles)

SpecLong == InitLong /\ [][Construct]_vars

----------------------------------------------------------------------------
(* Claims about construction, checked under SpecFiles *)

\* the cells of the file that row `row` of the table was read from
Source(row) == file.rows[row.idx + 1]

\* C1, as stated: after construction every income-classified row has an
\* amount >= 0, and every other row whose description does not contain
\* "refund" has an amount <= 0.
C1_SignsAsStated ==
  status = "ready" =>
    \A i \in 1..Len(df) :
       /\ IsIncomeCategory(df[i].Category) => df[i].Amount >= 0
       /\ (~IsIncomeCategory(df[i].Category) /\ ~Contains(df[i].Description, Refund))
            => df[i].Amount <= 0

\* C1, amended: the same with the description compared in lower case, so that
\* "REFUND" and "Refund" count as containing "refund" too.
C1_SignsAgree ==
  status = "ready" =>
    \A i \in 1..Len(df) :
       /\ IsIncomeCategory(df[i].Category) => df[i].Amount >= 0
       /\ (~IsIncomeCategory(df[i].Category)
             /\ ~Contains(Lower(df[i].Description), Refund))
            => df[i].Amount <= 0

\* An income row read with a negative amount and an expense row read with a
\* positive one, both corrected.
C1_Witness ==
  /\ status = "ready"
  /\ \E i \in 1..Len(df) :
       IsIncomeCategory(df[i].Category) /\ Source(df[i]).Amount.v < 0 /\ df[i].Amount > 0
  /\ \E i \in 1..Len(df) :
       ~IsIncomeCategory(df[i].Category) /\ Source(df[i]).Amount.v > 0 /\ df[i].Amount < 0

\* the rows of the file dated strictly after the processing date
FutureInput == {i \in 1..Len(file.rows) :
                  "Date" \in file.columns /\ file.rows[i].Date.ok
                    /\ file.rows[i].Date.v > today}

\* C2: after validation no row of the table is dated after the processing
\* date, and when rows were removed exactly one warning carries their count.
C2_NoFutureDates ==
  status = "ready" =>
    /\ \A i \in 1..Len(df) : df[i].Date = NaT \/ df[i].Date <= today
    /\ \A i \in 1..Len(df) : (df[i].idx + 1) \notin FutureInput
    /\ FutureInput # {} =>
         Cardinality({k \in 1..Len(warnings) :
                        warnings[k] = Warning("future", Cardinality(FutureInput))}) = 1

\* C3: for a file that exists, construction raises nothing, whatever columns
\* it holds, and every row ends with an amount, a category and a description.
C3_OnlyMissingFileIsFatal ==
  (status # "new" /\ file.exists) =>
    /\ status = "ready"
    /\ \A i \in 1..Len(df) :
         /\ "Amount" \notin file.columns => df[i].Amount = 0
         /\ "Category" \notin file.columns => df[i].Category = Other
         /\ "Description" \notin file.columns => df[i].Description = Unknown

----------------------------------------------------------------------------
(* Claims about the analyses, checked under Spec *)

Called(method) == status = "ready" /\ lastCall.method = method

\* the lowercased, whitespace-trimmed description of row i of the table
TrimmedLower(i) == Strip(Lower(df[i].Description))

SameDescription(i) == {j \in 1..Len(df) : TrimmedLower(j) = TrimmedLower(i)}

\* C4: identify_recurring_payments returns exactly one entry per description
\* (lowercased, trimmed) that occurs in at least two rows and none for any
\* other; its count is the size of the group, its average_amount the mean of
\* the group's amounts to the nearest cent, its category that of the group's
\* first row.
C4_RecurringGroups ==
  Called("identify_recurring_payments") =>
    LET found == lastCall.result
    IN  /\ \A i \in 1..Len(df) :
             Cardinality({k \in 1..Len(found) : found[k].description = TrimmedLower(i)})
               = IF Cardinality(SameDescription(i)) >= 2 THEN 1 ELSE 0
        /\ \A k \in 1..Len(found) :
             \E i \in 1..Len(df) :
                /\ found[k].description = TrimmedLower(i)
                /\ \A j \in SameDescription(i) : i <= j
                /\ found[k].count = Cardinality(SameDescription(i))
                /\ found[k].count >= 2
                /\ found[k].category = df[i].Category
                /\ 2 * Abs(found[k].count * found[k].average_amount
                           - SumSeq([j \in 1..Len(df) |->
                                       IF j \in SameDescription(i) THEN df[j].Amount ELSE 0]))
                     <= found[k].count

\* Two rows whose descriptions differ in case and trailing space, with
\* different categories, reported as one recurring payment.
C4_Witness ==
  /\ Called("identify_recurring_payments")
  /\ Len(lastCall.result) = 1
  /\ \E i, j \in 1..Len(df) :
       /\ i < j
       /\ df[i].Description # df[j].Description
       /\ df[i].Category # df[j].Category
       /\ lastCall.result[1].category = df[i].Category

\* the suggestions a call has returned: analyze_spending's list, or the
\* recommendations made of it
Suggested ==
  IF Called("analyze_spending") \/ Called("get_recommendations") THEN lastCall.result
  ELSE IF Called("generate_dashboard") THEN lastCall.result.spending_cuts
  ELSE <<>>

\* total absolute expense of a lowercased category, in cents
TotalSpent(cat) ==
  Abs(SumSeq([i \in 1..Len(df) |->
                IF df[i].Amount < 0 /\ Lower(df[i].Category) = cat THEN df[i].Amount ELSE 0]))

ProtectedNames ==
  { Text(<<"r", "e", "n", "t">>), Text(<<"h", "o", "u", "s", "i", "n", "g">>),
    Text(<<"m", "o", "r", "t", "g", "a", "g", "e">>) }

C6_RatingsSumToAmount ==
  Called("rate_transaction_worth") =>
    /\ Len(lastCall.result) = Len(df)
    /\ \A i \in 1..Len(df) :
         LET t == lastCall.result[i]
         IN  /\ t.date = df[i].Date
             /\ t.description = df[i].Description
             /\ t.amount = df[i].Amount
             /\ Abs(t.worth_it_rating + t.waste_potential - Abs(df[i].Amount)) <= 1

\* Two ratings in row order, one of which uses the tolerance: both halves of
\* 3.01 round to 1.50.
C6_Witness ==
  /\ Called("rate_transaction_worth")
  /\ Len(lastCall.result) = 2
  /\ lastCall.result[1].amount # lastCall.result[2].amount
  /\ \E i \in 1..2 :
       lastCall.result[i].worth_it_rating + lastCall.result[i].waste_potential
         # Abs(lastCall.result[i].amount)

\* what a method returns when it is the first call after construction
FirstResult(method) ==
  CASE method = "identify_recurring_payments" -> identify_recurring_payments(df)
    [] method = "predict_incoming_money" -> predict_incoming_money(df, file.columns)
    [] method = "rate_transaction_worth" ->
         rate_transaction_worth(<<>>, df, necessity_scores)
    [] method = "analyze_spending" -> analyze_spending(df, necessity_scores)
    [] method = "get_recommendations" ->
         get_recommendations(df, necessity_scores, lastCall.top_n)
    [] method = "investment_projection" ->
         investment_projection(lastCall.recommendations)
    [] method = "generate_dashboard" ->
         LET ratings == rate_transaction_worth(<<>>, df, necessity_scores)
             cuts == get_recommendations(df, necessity_scores, DefaultTopN)
         IN  [summary |-> _generate_summary(df),
              incoming_money |-> predict_incoming_money(df, file.columns),
              recurring_payments |-> identify_recurring_payments(df),
              spending_cuts |-> cuts,
              top_questionable_spending |-> TopQuestionable(ratings, DefaultTopQuestionable),
              transaction_ratings |-> ratings,
              investment_projection |-> investment_projection(AsDicts(cuts))]

\* C7: once the analyzer is constructed, no call changes the table, the
\* warnings or anything but the two cached lists, and every call returns what
\* the same call returns right after construction, whatever was called before.
C7_AnalysesRepeat ==
  /\ [][status = "ready" =>
          /\ df' = df /\ warnings' = warnings /\ rankings' = rankings
          /\ necessity_scores' = necessity_scores /\ file' = file
          /\ today' = today /\ status' = status]_vars
  /\ [](status = "ready" /\ lastCall.method # "none"
          => lastCall.result = FirstResult(lastCall.method))

\* a call made after both caches were filled by earlier calls
C7_Witness ==
  /\ Called("rate_transaction_worth")
  /\ transactions_with_ratings # <<>>
  /\ recurring_payments # <<>>
  /\ warnings # <<>>

Positive == {i \in 1..Len(df) : df[i].Amount > 0}

PositiveSum == SumSeq([i \in 1..Len(df) |-> IF i \in Positive THEN df[i].Amount ELSE 0])

PositiveMonths == {df[i].Date \div 100 : i \in {j \in Positive : df[j].Date # NaT}}

\* C10: predict_incoming_money counts the rows with a positive amount; without
\* any it predicts 0; when all of them are dated it predicts the mean over the
\* calendar months of the monthly sums; when none of them has a date it falls
\* back to the sum of the positive amounts.
C10_IncomePrediction ==
  Called("predict_incoming_money") =>
    LET r == lastCall.result
    IN  /\ r.transaction_count = Cardinality(Positive)
        /\ Positive = {} => r.predicted_monthly_income = Num(0)
        /\ (Positive # {} /\ \A i \in Positive : df[i].Date # NaT) =>
             /\ ~r.predicted_monthly_income.nan
             /\ 2 * Abs(Cardinality(PositiveMonths) * r.predicted_monthly_income.v
                        - PositiveSum) <= Cardinality(PositiveMonths)
        /\ (Positive # {} /\ \A i \in Positive : df[i].Date = NaT) =>
             r.predicted_monthly_income = Num(PositiveSum)

----------------------------------------------------------------------------
(* Claims about the methods that take an argument *)

\* C8, checked under SpecScore: get_necessity_score returns the table's entry
\* for the lowercased category and 0.50 when there is none, the same for every
\* spelling of the category in another letter case, and changes nothing.
C8_ScoreIsPure ==
  /\ [](Called("get_necessity_score") /\ lastCall.category.ok =>
          LET cat == Lower(lastCall.category.v)
          IN  /\ \A e \in NecessityTable : e[1] = cat => lastCall.result = e[2]
              /\ (\A e \in NecessityTable : e[1] # cat) => lastCall.result = 50
              /\ \A other \in CategoryArgs :
                   (other.ok /\ Lower(other.v) = cat) =>
                     get_necessity_score(necessity_scores, other) = lastCall.result)
  /\ [][lastCall'.method = "get_necessity_score" =>
          /\ necessity_scores' = necessity_scores /\ df' = df /\ warnings' = warnings
          /\ recurring_payments' = recurring_payments
          /\ transactions_with_ratings' = transactions_with_ratings]_vars

\* the score of a category spelled in mixed case that the table holds in
\* lower case
C8_Witness ==
  /\ Called("get_necessity_score")
  /\ lastCall.category.ok
  /\ lastCall.category.v # Lower(lastCall.category.v)
  /\ lastCall.result # 50

AmountSum(recs) ==
  SumSeq([i \in 1..Len(recs) |-> IF recs[i].has THEN recs[i].amount ELSE 0])

\* what C9 says of one projection made from the list recs
ProjectionOf(recs, p) ==
  /\ 2 * Abs(12 * p.monthly_savings - AmountSum(recs)) <= 12
  /\ Len(p.scenarios) = 3
  /\ [r \in 1..3 |-> p.scenarios[r].rate] = <<5, 7, 10>>
  /\ \A r \in 1..3 :
       [y \in 1..Len(p.scenarios[r].projections) |-> p.scenarios[r].projections[y].years]
         = <<1, 2, 5>>
  /\ AmountSum(recs) = 0 =>
       /\ p.monthly_savings = 0
       /\ \A r \in 1..3 : \A y \in 1..3 : p.scenarios[r].projections[y].value = 0

\* C9, checked under SpecCalls: monthly_savings is the sum of the amounts
\* divided by 12, to the cent; there are the three scenarios 5, 7, 10 with the
\* horizons 1, 2, 5; savings of zero project to zero; and generate_dashboard
\* projects the list it returns as spending_cuts.
C9_Projection ==
  /\ Called("investment_projection") =>
       ProjectionOf(lastCall.recommendations, lastCall.result)
  /\ Called("generate_dashboard") =>
       ProjectionOf(AsDicts(lastCall.result.spending_cuts),
                    lastCall.result.investment_projection)

\* a list of two zero amounts projected to zero
C9_Witness ==
  /\ Called("investment_projection")
  /\ Len(lastCall.recommendations) = 2
  /\ AmountSum(lastCall.recommendations) = 0
  /\ lastCall.result.scenarios[3].projections[3].value = 0

----------------------------------------------------------------------------
(* Claims about validation of longer files, checked under SpecLong *)

\* the validation step a warning comes from
StepOf(w) ==
  CASE w.kind \in {"future", "date_error"} -> 1
    [] w.kind = "income_sign" -> 2
    [] w.kind = "outliers" -> 3
    [] w.kind = "duplicates" -> 4
    [] OTHER -> 0

WarningsOfStep(n) == SelectSeq(warnings, LAMBDA w : StepOf(w) = n)

\* the rows of the table that are income-classified and were read with a
\* negative amount, in row order
NegativeIncomeRows ==
  SelectSeq(df, LAMBDA row : IsIncomeCategory(row.Category)
                               /\ Source(row).Amount.ok /\ Source(row).Amount.v < 0)

\* C11: after construction the warnings are ordered by validation step: at
\* most one future-date or date-parsing warning first, then exactly one note
\* per income-classified row read with a negative amount, in row order, then at
\* most one outlier warning, then at most one duplicate warning; nothing else
\* is in the list, so the flip of a non-income positive amount appends nothing.
C11_WarningsInStepOrder ==
  status = "ready" =>
    /\ \A k \in 1..Len(warnings) : StepOf(warnings[k]) \in 1..4
    /\ \A k \in 1..(Len(warnings) - 1) : StepOf(warnings[k]) <= StepOf(warnings[k + 1])
    /\ Len(WarningsOfStep(1)) <= 1
    /\ Len(WarningsOfStep(3)) <= 1
    /\ Len(WarningsOfStep(4)) <= 1
    /\ Len(WarningsOfStep(2)) = Len(NegativeIncomeRows)
    /\ \A k \in 1..Len(NegativeIncomeRows) :
         WarningsOfStep(2)[k].n = NegativeIncomeRows[k].idx

\* A file that gives all four kinds of warning, the income note for a row that
\* follows a removed one, and holds a non-income row whose positive amount was
\* flipped.
C11_Witness ==
  /\ status = "ready"
  /\ \A n \in 1..4 : Len(WarningsOfStep(n)) = 1
  /\ warnings[1].kind = "future"
  /\ df[1].idx > 0
  /\ \E i \in 1..Len(df) :
       ~IsIncomeCategory(df[i].Category) /\ Source(df[i]).Amount.v > 0 /\ df[i].Amount < 0

\* the labels of the rows of the file that are not dated after the processing
\* date, in file order
KeptLabels ==
  LET n == Len(file.rows)
      kept == {i \in 1..n : i \notin FutureInput}
      nth(k) == CHOOSE i \in kept : Cardinality({j \in kept : j < i}) = k - 1
  IN  [k \in 1..Cardinality(kept) |-> nth(k) - 1]

\* what row `row` of the table holds is what its line of the file held, up to
\* the sign of the amount and the replacement of non-ASCII characters
SameAsRead(row) ==
  LET src == Source(row)
  IN  /\ row.Date = IF "Date" \in file.columns /\ src.Date.ok THEN src.Date.v ELSE NaT
      /\ Abs(row.Amount) = IF src.Amount.ok THEN Abs(src.Amount.v) ELSE 0
      /\ row.Category = IF src.Category.ok THEN src.Category.v ELSE Other
      /\ IF src.Description.ok
           THEN /\ Len(row.Description) = Len(src.Description.v)
                /\ \A k \in 1..Len(row.Description) :
                     src.Description.v[k] < 128 => row.Description[k] = src.Description.v[k]
           ELSE row.Description = Unknown

\* C12: the validated table holds exactly the rows of the file that are not
\* dated after the processing date, in file order; each holds what was read,
\* up to the sign of its amount; and an outlier warning is given only when the
\* table holds at least 4 expenses.
C12_ValidationKeepsRows ==
  status = "ready" =>
    /\ [i \in 1..Len(df) |-> df[i].idx] = KeptLabels
    /\ \A i \in 1..Len(df) : SameAsRead(df[i])
    /\ Len(WarningsOfStep(3)) > 0 => Len(SelectSeq(df, IsExpense)) >= 4

\* the rows of the table whose description was read as text
TextRows == {i \in 1..Len(df) : Source(df[i]).Description.ok}

\* the description read for row i of the table
ReadText(i) == Source(df[i]).Description.v

\* C13, as stated: every description has the length of the text read, every
\* character outside the printable ASCII range 32..126 has become "?", and
\* every printable ASCII character is unchanged.
C13_SanitizedAsStated ==
  status = "ready" =>
    \A i \in TextRows :
       /\ Len(df[i].Description) = Len(ReadText(i))
       /\ \A k \in 1..Len(ReadText(i)) :
            df[i].Description[k] =
              IF ReadText(i)[k] >= 32 /\ ReadText(i)[k] <= 126 THEN ReadText(i)[k] ELSE 63

\* C13, amended: every description has the length of the text read, every
\* character above the 7-bit range (code 128 or more) has become "?", and every
\* 7-bit character, control characters included, is unchanged.
C13_SanitizedAscii ==
  status = "ready" =>
    \A i \in TextRows :
       /\ Len(df[i].Description) = Len(ReadText(i))
       /\ \A k \in 1..Len(ReadText(i)) :
            df[i].Description[k] = IF ReadText(i)[k] < 128 THEN ReadText(i)[k] ELSE 63

\* A description read with a Latin-1 letter, a tab and a capital after them:
\* the letter replaced, the tab and the capital kept in place.
C13_Witness ==
  /\ status = "ready"
  /\ \E i \in TextRows :
       \E j, k \in 1..Len(ReadText(i)) :
          /\ j < k /\ k < Len(ReadText(i))
          /\ ReadText(i)[j] >= 128 /\ df[i].Description[j] = 63
          /\ ReadText(i)[k] = 9 /\ df[i].Description[k] = 9
          /\ df[i].Description[k + 1] = ReadText(i)[k + 1]

----------------------------------------------------------------------------
(* Claims about the recommendations and the dashboard, checked under SpecCalls *)

Min(a, b) == IF a < b THEN a ELSE b

\* what C14 says of the list recs returned for top_n, given the list cuts of
\* analyze_spending
FirstOfCuts(recs, cuts, top_n) ==
  /\ Len(recs) = Min(top_n, Len(cuts))
  /\ Len(recs) <= top_n
  /\ \A k \in 1..Len(recs) :
       recs[k].category = cuts[k].category /\ recs[k].amount = cuts[k].amount
  /\ \A j, k \in 1..Len(recs) : j # k => recs[j].category # recs[k].category
  /\ \A k \in 1..(Len(recs) - 1) : cuts[k].potential_cut >= cuts[k + 1].potential_cut

\* C14: for every top_n >= 0, get_recommendations(top_n) returns the first
\* min(top_n, k) entries of the k entries of analyze_spending: at most top_n
\* entries, of distinct categories, in descending order of potential cut.
C14_RecommendationsTopN ==
  Called("get_recommendations") =>
    FirstOfCuts(lastCall.result, analyze_spending(df, necessity_scores), lastCall.top_n)

\* the rows of the table that the rating t may have been made from
RowsRated(t) ==
  {i \in 1..Len(df) : /\ df[i].Date = t.date
                      /\ df[i].Description = t.description
                      /\ df[i].Amount = t.amount}

\* what C15 says of the list top, given the ratings it is taken from
QuestionableOnly(top, ratings, top_n) ==
  /\ Len(top) <= top_n
  /\ \A k \in 1..Len(top) :
       /\ \E j \in 1..Len(ratings) : ratings[j] = top[k]
       /\ top[k].necessity < 70
       /\ \E i \in RowsRated(top[k]) : ~IsIncomeCategory(df[i].Category)
  /\ \A k \in 1..(Len(top) - 1) : top[k].waste_potential >= top[k + 1].waste_potential

\* C15: no transaction of the dashboard's top_questionable_spending is
\* income-classified or has a necessity of 0.70 or more; the list has at most
\* 8 entries, each one of the transaction ratings, in descending order of
\* waste potential.
C15_NoIncomeNoEssential ==
  Called("generate_dashboard") =>
    QuestionableOnly(lastCall.result.top_questionable_spending,
                     lastCall.result.transaction_ratings, DefaultTopQuestionable)

====
